---- MODULE Spec2Model ----
(***************************************************************************)
(* A model of the EventEmitter of src/index.mjs.                           *)
(*                                                                         *)
(* The emitter is single threaded but re-entrant: a listener runs on the   *)
(* call stack of the emit that invokes it and may call back into the       *)
(* emitter.  The model is therefore an explicit call stack.  Every frame   *)
(* is an activation of one method of the class (or of a listener) and      *)
(* every action runs one activation from where it stands to the next point *)
(* where control passes to another activation.                             *)
(***************************************************************************)
EXTENDS Integers, Sequences, FiniteSets, TLC

(***************************************************************************)
(* Bounds of the model.                                                    *)
(***************************************************************************)
\* a registration call is made only while fewer entries than this are stored
MaxEntries == 2
\* a listener calls into the emitter only while at most this many listeners
\* are running, itself included
MaxNesting == 1
\* calls into the emitter made by one activation of a listener
MaxCalls == 1
\* once wrappers created over a run
MaxOnce == 1
\* promises returned by listeners and not settled yet
MaxPromises == 1
\* calls into the emitter made by one activation of a handler that does
\* several things in a row
MaxHandlerCalls == 2

(***************************************************************************)
(* Values.                                                                 *)
(***************************************************************************)
NewListenerName == "newListener"
RemoveListenerName == "removeListener"
ErrorListenerName == "error"

\* the event keys callers use
EventNames == {"x", NewListenerName, RemoveListenerName, ErrorListenerName}

\* the event keys a running listener uses when it calls back
ListenerNames == {"x"}

\* the callbacks callers pass: "f" is a plain function that returns, "g" is
\* an arbitrary closure (it may call back into the emitter, or throw)
Functions == {"f", "g"}
Active == {"g"}

\* the values passed to emit, and the values listeners throw
Values == {"a", "b"}
Errors == {"e1"}

\* a callback supplied by the caller
Fn(name) == [once |-> FALSE, fn |-> name]

\* arguments the methods do not check: a key that is neither a string nor a
\* symbol (the number 42, which names the property "42"), and a listener
\* that is not a function; calling the latter throws a TypeError
InvalidName == "42"
NotInvocable == "notInvocable"
TypeErrorValue == "TypeError"
Invocable(listener) == listener.once \/ listener.fn \in Functions

\* a key that is a symbol, as the documentation of every method allows
SymbolName == "Symbol(s)"
isSymbol(name) == name = SymbolName
\* a key that is an integer index: Object.keys lists such keys first
isIndex(name) == name = InvalidName

VARIABLES
  listeners,  \* #listeners: the properties of the object, in insertion order,
              \* each [name, array]
  stack,      \* the call stack, innermost activation last
  result,     \* how the activation that ended last ended
  nextId,     \* the next once wrapper's identity
  registered, \* history: per key, the listeners on and prependListener
              \* inserted, in the order of their insertion
  wrappers,   \* history: per once wrapper, what happened to it
  rejections  \* #captureRejections, the property this[#captureRejectionSymbol]
              \* and the promises of listeners that are not settled yet

history == <<registered, wrappers>>
vars == <<listeners, stack, result, nextId, registered, wrappers, rejections>>

\* the state as one value, so that methods are operators from state to state
Cur ==
  [listeners |-> listeners, stack |-> stack,
   result |-> result, nextId |-> nextId]

Apply(s) ==
  /\ listeners' = s.listeners
  /\ stack' = s.stack
  /\ result' = s.result
  /\ nextId' = s.nextId

(***************************************************************************)
(* The registry: #listeners and the arrays it holds.                       *)
(***************************************************************************)
None == [status |-> "none", op |-> "none", v |-> "undefined"]

\* the position of the property eventName in #listeners, 0 when it has none
Pos(s, eventName) ==
  IF \E i \in 1..Len(s.listeners) : s.listeners[i].name = eventName
  THEN CHOOSE i \in 1..Len(s.listeners) : s.listeners[i].name = eventName
  ELSE 0

\* #get: whether eventName has an array (undefined otherwise)
get(s, eventName) == Pos(s, eventName) # 0

\* what the array of eventName holds now, empty when there is none
Stored(s, eventName) ==
  IF get(s, eventName) THEN s.listeners[Pos(s, eventName)].array ELSE <<>>

\* #getOrCreate: the state in which eventName has an array
getOrCreate(s, eventName) ==
  IF get(s, eventName) THEN s
  ELSE [s EXCEPT !.listeners = Append(@, [name |-> eventName, array |-> <<>>])]

\* A reference to an array outlives a call into a listener in one place, the
\* local `listeners` of off.  While the property still holds that array the
\* reference is live and reads it.  Once the property is deleted nothing
\* writes to the array again (every write goes through a reference read from
\* the property just before), so the reference keeps what the array held.
LiveRef == [live |-> TRUE]
Deref(s, frame) ==
  IF frame.ref.live THEN Stored(s, frame.eventName) ELSE frame.ref.array

\* delete this.#listeners[eventName]: the property goes, the array stays
\* with the activations of off that hold it
delete(s, eventName) ==
  [s EXCEPT
     !.listeners = SelectSeq(@, LAMBDA p : p.name # eventName),
     !.stack = [i \in 1..Len(s.stack) |->
                  IF /\ s.stack[i].kind = "off"
                     /\ s.stack[i].eventName = eventName
                     /\ s.stack[i].ref.live
                  THEN [s.stack[i] EXCEPT
                          !.ref = [live |-> FALSE, array |-> Stored(s, eventName)]]
                  ELSE s.stack[i]]]

\* listeners(eventName): a copy of the array, or a new empty array
listenersOf(s, eventName) ==
  IF get(s, eventName) THEN Stored(s, eventName) ELSE <<>>

\* listenerCount(eventName)
listenerCount(s, eventName) ==
  IF get(s, eventName) THEN Len(Stored(s, eventName)) ELSE 0

\* eventNames(): Object.keys of #listeners, which lists the integer keys,
\* then the other string keys in insertion order, and no symbol key
eventNames(s) ==
  LET keys == [i \in 1..Len(s.listeners) |-> s.listeners[i].name]
  IN SelectSeq(keys, isIndex)
       \o SelectSeq(keys, LAMBDA name : ~isIndex(name) /\ ~isSymbol(name))

\* Array.prototype.indexOf, 1-based: 0 when the array does not hold it
indexOf(array, listener) ==
  IF \E i \in 1..Len(array) : array[i] = listener
  THEN CHOOSE i \in 1..Len(array) :
         /\ array[i] = listener
         /\ \A j \in 1..(i - 1) : array[j] # listener
  ELSE 0

\* (mutant) listeners.splice(index): the entries from index on are removed
spliceToEnd(array, index) == SubSeq(array, 1, index - 1)

\* array.splice(index, 1)
splice(array, index) ==
  SubSeq(array, 1, index - 1) \o SubSeq(array, index + 1, Len(array))

\* (mutant) unshift puts the listener at the end
unshiftLast(array, listener) == Append(array, listener)

\* array.push(listener) and array.unshift(listener)
push(array, listener) == Append(array, listener)
unshift(array, listener) == <<listener>> \o array

\* the entries stored over all keys
Entries(s) ==
  LET RECURSIVE Sum(_)
      Sum(i) == IF i = 0 THEN 0 ELSE Len(s.listeners[i].array) + Sum(i - 1)
  IN Sum(Len(s.listeners))

(***************************************************************************)
(* Activations.                                                            *)
(***************************************************************************)
Top(s) == s.stack[Len(s.stack)]
Pop(s) == [s EXCEPT !.stack = SubSeq(@, 1, Len(@) - 1)]
SetTop(s, frame) == [s EXCEPT !.stack[Len(s.stack)] = frame]

\* enter an activation
Call(s, frame) == [s EXCEPT !.stack = Append(@, frame), !.result = None]

\* the activation on top of the stack is over: it returns v, or throws v
Return(s, op, v) ==
  [s EXCEPT !.result = [status |-> "return", op |-> op, v |-> v]]
Throw(s, op, v) ==
  [s EXCEPT !.result = [status |-> "throw", op |-> op, v |-> v]]

\* the listeners that are running
Nesting(s) == Cardinality({i \in 1..Len(s.stack) : s.stack[i].kind = "fn"})

Running == stack # <<>> /\ result.status # "throw"
Throwing == stack # <<>> /\ result.status = "throw"

(***************************************************************************)
(* #emitEvent, #emitError and emit.                                        *)
(*                                                                         *)
(* An "emit" frame is one run of the loop of #emitEvent.  With catching it *)
(* is the run inside the try of emit; without, it is the run #emitError    *)
(* makes for the value `error`, which nothing catches.  start, invoked and *)
(* called are history: what the array held when the loop started, the      *)
(* entries the loop has invoked, and the key and listener count of the     *)
(* emit call the loop belongs to, with the array its loop walked and the   *)
(* number of listeners that loop had invoked when #emitError took over.    *)
(***************************************************************************)
EmitFrame(s, eventName, arg, catching, error, called) ==
  [kind |-> "emit", eventName |-> eventName, arg |-> arg,
   list |-> listenersOf(s, eventName), index |-> 0,
   catching |-> catching, error |-> error,
   start |-> Stored(s, eventName), invoked |-> <<>>, called |-> called]

\* (mutant) the loop walks the array of the registry, not a copy of it
CurrentListenersLive(s, frame) == Stored(s, frame.eventName)

\* the array the loop of #emitEvent walks: its local `listeners`
CurrentListeners(s, frame) == frame.list

\* (mutant) return listeners.length >= 0
hasListenersAlways(array) == Len(array) >= 0

\* return listeners.length > 0
hasListeners(array) == Len(array) > 0

\* how an emit frame ends, for its caller
EmitResult(frame, status, v) ==
  [status |-> status, op |-> "emit", v |-> v, eventName |-> frame.eventName,
   start |-> frame.start, invoked |-> frame.invoked, called |-> frame.called,
   error |-> frame.error]

\* emit(eventName, ...args): try { return this.#emitEvent(eventName, ...args) }
emit(s, eventName, arg) ==
  Call(s, EmitFrame(s, eventName, arg, TRUE, "none",
                    [eventName |-> eventName, count |-> Len(Stored(s, eventName)),
                     invoked |-> 0, list |-> listenersOf(s, eventName)]))

\* (mutant) #emitError emits 'error' without the error
emitErrorNoValue(s, frame, error) ==
  SetTop([s EXCEPT !.result = None],
         EmitFrame(s, ErrorListenerName, [v |-> "undefined"], FALSE, error,
                   [frame.called EXCEPT !.invoked = Len(frame.invoked)]))

\* #emitError(error), entered from the catch of emit
emitError(s, frame, error) ==
  SetTop([s EXCEPT !.result = None],
         EmitFrame(s, ErrorListenerName, [v |-> error], FALSE, error,
                   [frame.called EXCEPT !.invoked = Len(frame.invoked)]))

(***************************************************************************)
(* off and removeListener.                                                 *)
(***************************************************************************)
\* how an off ends, for its caller; prior is history, the registry a call
\* that matched no entry found (before, in the activation of off, is the
\* array of eventName the call found)
OffResult(frame) ==
  [status |-> "return", op |-> "off", v |-> "this",
   eventName |-> frame.eventName, listener |-> frame.listener,
   removed |-> frame.removed, prior |-> frame.prior]

\* if (listeners.length == 0) delete this.#listeners[eventName]; return this:
\* the array read at the start is tested, the property of the name is deleted
offEnd(s, frame) ==
  [(IF Len(Deref(s, frame)) = 0 THEN delete(s, frame.eventName) ELSE s)
     EXCEPT !.result = OffResult(frame)]

\* off(eventName, listener) up to its emit of 'removeListener'
off(s, eventName, listener) ==
  LET index == indexOf(Stored(s, eventName), listener)
      frame == [kind |-> "off", eventName |-> eventName, listener |-> listener,
                ref |-> LiveRef, removed |-> get(s, eventName) /\ index > 0,
                before |-> Stored(s, eventName),
                prior |-> IF get(s, eventName) /\ index > 0 THEN <<>>
                          ELSE s.listeners]
  IN IF ~get(s, eventName) THEN [s EXCEPT !.result = OffResult(frame)]
     ELSE IF index > 0
     THEN emit(Call([s EXCEPT !.listeners[Pos(s, eventName)].array = splice(@, index)],
                    frame),
               RemoveListenerName,
               [eventName |-> eventName, listener |-> listener])
     ELSE offEnd(s, frame)

(***************************************************************************)
(* on, prependListener, once, prependOnceListener.                         *)
(***************************************************************************)
\* this.#getOrCreate(eventName).push(listener), or .unshift(listener)
insert(s, eventName, listener, prepend) ==
  LET c == getOrCreate(s, eventName)
  IN [c EXCEPT !.listeners[Pos(c, eventName)].array =
        IF prepend THEN unshift(@, listener) ELSE push(@, listener)]

\* (mutant) the listener is inserted before 'newListener' is emitted
onInsertFirst(s, eventName, listener, prepend) ==
  emit(Call(insert(s, eventName, listener, prepend),
            [kind |-> "on", eventName |-> eventName,
             listener |-> listener, prepend |-> prepend,
             before |-> Stored(s, eventName)]),
       NewListenerName, [eventName |-> eventName, listener |-> listener])

\* on / prependListener up to the emit of 'newListener'; before is history,
\* the array of eventName when the call was made
on(s, eventName, listener, prepend) ==
  emit(Call(s, [kind |-> "on", eventName |-> eventName,
                listener |-> listener, prepend |-> prepend,
                before |-> Stored(s, eventName)]),
       NewListenerName, [eventName |-> eventName, listener |-> listener])

\* how an on ends, for its caller; prior is history, the array of eventName
\* just before the insertion
OnResult(frame, prior) ==
  [status |-> "return", op |-> "on", v |-> "this",
   eventName |-> frame.eventName, listener |-> frame.listener,
   prepend |-> frame.prepend, prior |-> prior]

\* #createOnceListener: the closure over eventName and listener
createOnceListener(eventName, fn, id) ==
  [once |-> TRUE, fn |-> fn, eventName |-> eventName, id |-> id]

\* once / prependOnceListener
once(s, eventName, fn, prepend) ==
  on([s EXCEPT !.nextId = @ + 1], eventName,
     createOnceListener(eventName, fn, s.nextId), prepend)

(***************************************************************************)
(* The listener count warning.  A program can pass maxListeners to the     *)
(* constructor, whose parameter pattern takes captureRejections and        *)
(* captureRejectionSymbol only; no method compares a count with a          *)
(* threshold or writes a diagnostic.                                       *)
(***************************************************************************)
\* new EventEmitter({ maxListeners: 1 })
MaxListenersOption == 1

\* the warnings written for eventName so far
warnings(s, eventName) == 0

(***************************************************************************)
(* Invoking a listener: listeners[index](...args).                         *)
(***************************************************************************)
\* (mutant) the once wrapper does not remove itself
invokeWithoutOff(s, listener, arg) ==
  IF listener.once
  THEN Call(s, [kind |-> "once", listener |-> listener, arg |-> arg,
                pc |-> "off"])
  ELSE IF ~Invocable(listener) THEN Throw(s, "fn", TypeErrorValue)
  ELSE Call(s, [kind |-> "fn", fn |-> listener.fn, arg |-> arg, calls |-> 0])

\* a once wrapper starts with this.off(eventName, onceListener); a listener
\* that is not a function cannot be called
invoke(s, listener, arg) ==
  IF listener.once
  THEN off(Call(s, [kind |-> "once", listener |-> listener, arg |-> arg,
                    pc |-> "off"]),
           listener.eventName, listener)
  ELSE IF ~Invocable(listener) THEN Throw(s, "fn", TypeErrorValue)
  ELSE Call(s, [kind |-> "fn", fn |-> listener.fn, arg |-> arg, calls |-> 0])

(***************************************************************************)
(* removeAllListeners.                                                     *)
(***************************************************************************)
NoName == "null"

\* removeAllListeners(eventName = null) up to the loops; all and handlers
\* are history: whether the call named no event, and the 'removeListener'
\* handlers registered when it was made
removeAllListeners(s, eventName) ==
  LET names == IF eventName # NoName THEN <<eventName>> ELSE eventNames(s)
  IN Call(s, [kind |-> "removeAllListeners", eventNames |-> names, eindex |-> 0,
              list |-> <<>>, lindex |-> 0,
              all |-> eventName = NoName,
              handlers |-> Stored(s, RemoveListenerName)])

(***************************************************************************)
(* The initial state: a new EventEmitter.                                  *)
(***************************************************************************)
\* this[#captureRejectionSymbol] when the property was never assigned
NoRejectionListener == "undefined"

\* new EventEmitter({ captureRejections })
New(captureRejections) ==
  /\ listeners = <<>>
  /\ stack = <<>>
  /\ result = None
  /\ nextId = 1
  /\ rejections = [captureRejections |-> captureRejections,
                   rejectionListener |-> NoRejectionListener,
                   promises |-> <<>>]
  /\ registered = [eventName \in EventNames |->
                     [appended |-> <<>>, prepended |-> <<>>]]
  /\ wrappers = [id \in 1..MaxOnce |->
                   [armed |-> FALSE, eventName |-> NoName, emits |-> <<>>,
                    fired |-> <<>>, disturbed |-> FALSE]]

\* new EventEmitter(): static captureRejections = false is the default
Init == New(FALSE)

\* new EventEmitter({ captureRejections: true }), or the default
InitReject == \E captureRejections \in BOOLEAN : New(captureRejections)

(***************************************************************************)
(* Calls of the public methods.  The caller is the program that owns the   *)
(* emitter (the stack is empty) or a listener that is running.             *)
(***************************************************************************)
CanCall ==
  \/ stack = <<>> /\ result = None
  \/ /\ Running
     /\ Top(Cur).kind = "fn"
     /\ Top(Cur).fn \in Active
     /\ Top(Cur).calls < MaxCalls
     /\ Nesting(Cur) <= MaxNesting

Caller ==
  IF stack = <<>> THEN Cur
  ELSE SetTop(Cur, [Top(Cur) EXCEPT !.calls = @ + 1])

\* the keys a caller uses: a listener that calls back uses ListenerNames
Names == IF stack = <<>> THEN EventNames ELSE ListenerNames

\* the listeners a caller can pass to off: its callbacks, and the entries
\* listeners(eventName) hands out
OffArgs(eventName) ==
  {Fn(f) : f \in Functions}
    \cup {Stored(Cur, eventName)[i] : i \in 1..Len(Stored(Cur, eventName))}

\* emitter.emit(eventName, v)
EmitCall(eventName, v) ==
  /\ CanCall
  /\ Apply(emit(Caller, eventName, [v |-> v]))

Emit == \E eventName \in Names, v \in Values : EmitCall(eventName, v)

On ==
  /\ CanCall
  /\ Entries(Cur) < MaxEntries
  /\ \E eventName \in Names, f \in Functions :
       Apply(on(Caller, eventName, Fn(f), FALSE))

PrependListener ==
  /\ CanCall
  /\ Entries(Cur) < MaxEntries
  /\ \E eventName \in Names, f \in Functions :
       Apply(on(Caller, eventName, Fn(f), TRUE))

Once ==
  /\ CanCall
  /\ Entries(Cur) < MaxEntries
  /\ nextId <= MaxOnce
  /\ \E eventName \in Names, f \in Functions :
       Apply(once(Caller, eventName, f, FALSE))

PrependOnceListener ==
  /\ CanCall
  /\ Entries(Cur) < MaxEntries
  /\ nextId <= MaxOnce
  /\ \E eventName \in Names, f \in Functions :
       Apply(once(Caller, eventName, f, TRUE))

Off ==
  /\ CanCall
  /\ \E eventName \in Names :
       \E listener \in OffArgs(eventName) :
         Apply(off(Caller, eventName, listener))

RemoveAllListeners ==
  /\ CanCall
  /\ \E eventName \in Names \cup {NoName} :
       Apply(removeAllListeners(Caller, eventName))

\* the program takes the value its call returned, or catches what it threw;
\* after a job, the host takes how the job ended
Receive ==
  /\ stack = <<>>
  /\ result # None
  /\ Apply([Cur EXCEPT !.result = None])

(***************************************************************************)
(* The steps of the activations.                                           *)
(***************************************************************************)
\* #emitEvent, one turn of the loop: the next listener is invoked
EmitInvoke ==
  /\ Running
  /\ Top(Cur).kind = "emit"
  /\ LET frame == Top(Cur)
         array == CurrentListeners(Cur, frame)
     IN /\ frame.index < Len(array)
        /\ Apply(invoke(SetTop(Cur, [frame EXCEPT
                                       !.index = @ + 1,
                                       !.invoked = Append(@, array[frame.index + 1])]),
                        array[frame.index + 1], frame.arg))

\* (mutant) #emitError returns false when 'error' has no listener
EmitReturnSilent ==
  /\ Running
  /\ Top(Cur).kind = "emit"
  /\ LET frame == Top(Cur)
         array == CurrentListeners(Cur, frame)
     IN /\ frame.index >= Len(array)
        /\ Apply([Pop(Cur) EXCEPT !.result =
                    EmitResult(frame, "return",
                               IF hasListeners(array) THEN "true" ELSE "false")])

\* #emitEvent, after the loop: return listeners.length > 0; in #emitError
\* the value is returned when true and the error is thrown when false
EmitReturn ==
  /\ Running
  /\ Top(Cur).kind = "emit"
  /\ LET frame == Top(Cur)
         array == CurrentListeners(Cur, frame)
     IN /\ frame.index >= Len(array)
        /\ Apply([Pop(Cur) EXCEPT !.result =
                    IF frame.catching
                    THEN EmitResult(frame, "return",
                                    IF hasListeners(array) THEN "true" ELSE "false")
                    ELSE IF hasListeners(array)
                    THEN EmitResult(frame, "return", "true")
                    ELSE EmitResult(frame, "throw", frame.error)])

\* emit: catch (error) { return this.#emitError(error) }
EmitCatch ==
  /\ Throwing
  /\ Top(Cur).kind = "emit"
  /\ Top(Cur).catching
  /\ Apply(emitError(Cur, Top(Cur), result.v))

\* how an on ends that throws what its emit of 'newListener' threw; before
\* is history, the array of eventName when the call was made
OnThrown(frame, v) ==
  [status |-> "throw", op |-> "on", v |-> v,
   eventName |-> frame.eventName, listener |-> frame.listener,
   before |-> frame.before]

\* (mutant) on inserts the listener although its emit of 'newListener' threw
PropagateInserting ==
  /\ Throwing
  /\ ~(Top(Cur).kind = "emit" /\ Top(Cur).catching)
  /\ LET frame == Top(Cur)
     IN Apply([(IF frame.kind = "on"
                THEN insert(Pop(Cur), frame.eventName, frame.listener,
                            frame.prepend)
                ELSE Pop(Cur)) EXCEPT !.result =
                 IF frame.kind = "emit"
                 THEN EmitResult(frame, "throw", result.v)
                 ELSE IF frame.kind = "on" THEN OnThrown(frame, result.v)
                 ELSE [status |-> "throw", op |-> frame.kind, v |-> result.v]])

\* an exception leaves an activation that does not catch it
Propagate ==
  /\ Throwing
  /\ ~(Top(Cur).kind = "emit" /\ Top(Cur).catching)
  /\ LET frame == Top(Cur)
     IN Apply([Pop(Cur) EXCEPT !.result =
                 IF frame.kind = "emit"
                 THEN EmitResult(frame, "throw", result.v)
                 ELSE IF frame.kind = "on" THEN OnThrown(frame, result.v)
                 ELSE [status |-> "throw", op |-> frame.kind, v |-> result.v]])

\* on / prependListener after the emit of 'newListener': the insertion
OnInsert ==
  /\ Running
  /\ Top(Cur).kind = "on"
  /\ LET frame == Top(Cur)
     IN Apply([insert(Pop(Cur), frame.eventName, frame.listener, frame.prepend)
                 EXCEPT !.result = OnResult(frame, Stored(Cur, frame.eventName))])

\* off after the emit of 'removeListener'
OffEnd ==
  /\ Running
  /\ Top(Cur).kind = "off"
  /\ LET frame == Top(Cur)
     IN Apply(offEnd(Pop(Cur), frame))

\* the once wrapper after its off: listener(...args)
OnceCall ==
  /\ Running
  /\ Top(Cur).kind = "once"
  /\ Top(Cur).pc = "off"
  /\ LET frame == Top(Cur)
     IN Apply(invoke(SetTop(Cur, [frame EXCEPT !.pc = "call"]),
                     Fn(frame.listener.fn), frame.arg))

\* the once wrapper after the listener returned: it returns undefined
OnceReturn ==
  /\ Running
  /\ Top(Cur).kind = "once"
  /\ Top(Cur).pc = "call"
  /\ Apply(Return(Pop(Cur), "once", "undefined"))

\* a callback of the caller returns
FnReturn ==
  /\ Running
  /\ Top(Cur).kind = "fn"
  /\ Apply(Return(Pop(Cur), "fn", "undefined"))

\* a callback of the caller throws
FnThrow ==
  /\ Running
  /\ Top(Cur).kind = "fn"
  /\ Top(Cur).fn \in Active
  /\ \E e \in Errors : Apply(Throw(Pop(Cur), "fn", e))

\* removeAllListeners, the inner loop: off(eventNames[eindex], listeners[lindex])
RemoveAllOff ==
  /\ Running
  /\ Top(Cur).kind = "removeAllListeners"
  /\ LET frame == Top(Cur)
     IN /\ frame.lindex < Len(frame.list)
        /\ Apply(off(SetTop(Cur, [frame EXCEPT !.lindex = @ + 1]),
                     frame.eventNames[frame.eindex],
                     frame.list[frame.lindex + 1]))

\* removeAllListeners, the outer loop: the next name and a copy of its array
RemoveAllNext ==
  /\ Running
  /\ Top(Cur).kind = "removeAllListeners"
  /\ LET frame == Top(Cur)
     IN /\ frame.lindex >= Len(frame.list)
        /\ frame.eindex < Len(frame.eventNames)
        /\ Apply(SetTop(Cur, [frame EXCEPT
                                !.eindex = @ + 1,
                                !.list = listenersOf(Cur, frame.eventNames[frame.eindex + 1]),
                                !.lindex = 0]))

\* removeAllListeners, after the loops: return this
RemoveAllReturn ==
  /\ Running
  /\ Top(Cur).kind = "removeAllListeners"
  /\ LET frame == Top(Cur)
     IN /\ frame.lindex >= Len(frame.list)
        /\ frame.eindex >= Len(frame.eventNames)
        /\ Apply(Return(Pop(Cur), "removeAllListeners", "this"))

\* the history variables record nothing
Quiet == UNCHANGED <<history, rejections>>

Next ==
  \/ Emit /\ Quiet
  \/ On /\ Quiet
  \/ PrependListener /\ Quiet
  \/ Once /\ Quiet
  \/ PrependOnceListener /\ Quiet
  \/ Off /\ Quiet
  \/ RemoveAllListeners /\ Quiet
  \/ Receive /\ Quiet
  \/ EmitInvoke /\ Quiet
  \/ EmitReturn /\ Quiet
  \/ EmitCatch /\ Quiet
  \/ Propagate /\ Quiet
  \/ OnInsert /\ Quiet
  \/ OffEnd /\ Quiet
  \/ OnceCall /\ Quiet
  \/ OnceReturn /\ Quiet
  \/ FnReturn /\ Quiet
  \/ FnThrow /\ Quiet
  \/ RemoveAllOff /\ Quiet
  \/ RemoveAllNext /\ Quiet
  \/ RemoveAllReturn /\ Quiet

Spec == Init /\ [][Next]_vars

(***************************************************************************)
(* Registration alone: the program and the listeners call on,              *)
(* prependListener and emit, and nothing is ever removed.  registered      *)
(* records each insertion.                                                 *)
(***************************************************************************)
\* the listener that on or prependListener inserts in this step goes to the
\* record of its key
LogRegistered ==
  LET frame == Top(Cur)
  IN /\ registered' =
          [registered EXCEPT ![frame.eventName] =
             IF frame.prepend
             THEN [@ EXCEPT !.prepended = Append(@, frame.listener)]
             ELSE [@ EXCEPT !.appended = Append(@, frame.listener)]]
     /\ UNCHANGED <<wrappers, rejections>>

NextRegister ==
  \/ Emit /\ Quiet
  \/ On /\ Quiet
  \/ PrependListener /\ Quiet
  \/ Receive /\ Quiet
  \/ EmitInvoke /\ Quiet
  \/ EmitReturn /\ Quiet
  \/ EmitCatch /\ Quiet
  \/ Propagate /\ Quiet
  \/ OnInsert /\ LogRegistered
  \/ FnReturn /\ Quiet
  \/ FnThrow /\ Quiet

SpecRegister == Init /\ [][NextRegister]_vars

(***************************************************************************)
(* The once wrappers observed: the program and the listeners call emit,    *)
(* on, prependListener, once, prependOnceListener and off, and wrappers    *)
(* records, for each wrapper, what the steps did with it.                  *)
(***************************************************************************)
\* the state a step leads to
CurNext ==
  [listeners |-> listeners', stack |-> stack', result |-> result',
   nextId |-> nextId']

\* the wrapper of this identity is an entry of some array of s
StoredWrapper(s, id) ==
  \E p \in 1..Len(s.listeners) :
    \E i \in 1..Len(s.listeners[p].array) :
      /\ s.listeners[p].array[i].once
      /\ s.listeners[p].array[i].id = id

\* the wrapper of this identity is running in s
RunningWrapper(s, id) ==
  \E j \in 1..Len(s.stack) :
    s.stack[j].kind = "once" /\ s.stack[j].listener.id = id

\* the step is the wrapper's call of the callback it wraps
Fires(id) ==
  /\ Running
  /\ Top(Cur).kind = "once"
  /\ Top(Cur).pc = "off"
  /\ Top(Cur).listener.id = id

\* the step is a call the program makes, outside any listener
ProgramCall == stack = <<>> /\ result = None

\* no emit(eventName, v) is made in the step
NoEmit == [eventName |-> NoName]

\* the step is the emit(eventName, ...) the program makes, outside any
\* listener
ProgramEmit(emitted, eventName) ==
  ProgramCall /\ emitted.eventName = eventName

\* the step starts another dispatch of eventName: an emit a listener makes,
\* or one that on, off or the error routing makes
OtherDispatch(emitted, eventName) ==
  /\ stack' # <<>>
  /\ stack' # stack
  /\ Top(CurNext).kind = "emit"
  /\ Top(CurNext).index = 0
  /\ Top(CurNext).eventName = eventName
  /\ ~ProgramEmit(emitted, eventName)

\* the record of a wrapper that is no longer observed
Retired ==
  [armed |-> TRUE, eventName |-> NoName, emits |-> <<>>, fired |-> <<>>,
   disturbed |-> TRUE]

\* what the step makes of the record of one wrapper: armed when it is stored,
\* emits the arguments of the first two program emits of its key since,
\* fired the arguments of its calls of the callback, and disturbed when,
\* before it fired, a listener threw, another dispatch of its key started or
\* something else removed it.  The wrapper is retired when the program makes
\* a call after the wrapper has left the registry, unless that call is the
\* second emit of its key and directly follows the first.
Observed(id, emitted) ==
  LET w == wrappers[id]
      armed == w.armed \/ StoredWrapper(CurNext, id)
      eventName == IF w.armed THEN w.eventName
                   ELSE IF armed THEN Top(Cur).eventName ELSE NoName
      fired == IF Fires(id) THEN Append(w.fired, Top(Cur).arg) ELSE w.fired
      disturbed ==
        \/ w.disturbed
        \/ /\ armed
           /\ fired = <<>>
           /\ \/ ~Throwing /\ result'.status = "throw"
              \/ w.armed /\ OtherDispatch(emitted, eventName)
              \/ /\ ~StoredWrapper(CurNext, id)
                 /\ ~RunningWrapper(CurNext, id)
      emits == IF disturbed THEN <<>>
               ELSE IF /\ w.armed
                       /\ ProgramEmit(emitted, eventName)
                       /\ Len(w.emits) < 2
               THEN Append(w.emits, [v |-> emitted.v]) ELSE w.emits
      second == /\ ~w.disturbed
                /\ Len(w.emits) = 1
                /\ ProgramEmit(emitted, eventName)
  IN IF w.armed /\ ProgramCall /\ ~StoredWrapper(Cur, id) /\ ~second
     THEN Retired
     ELSE [armed |-> armed, eventName |-> eventName, emits |-> emits,
           fired |-> fired, disturbed |-> disturbed]

Observe(emitted) ==
  /\ wrappers' = [id \in 1..MaxOnce |-> Observed(id, emitted)]
  /\ UNCHANGED <<registered, rejections>>

NextOnce ==
  \/ \E eventName \in Names, v \in Values :
       EmitCall(eventName, v) /\ Observe([eventName |-> eventName, v |-> v])
  \/ On /\ Observe(NoEmit)
  \/ PrependListener /\ Observe(NoEmit)
  \/ Once /\ Observe(NoEmit)
  \/ PrependOnceListener /\ Observe(NoEmit)
  \/ Off /\ Observe(NoEmit)
  \/ Receive /\ Observe(NoEmit)
  \/ EmitInvoke /\ Observe(NoEmit)
  \/ EmitReturn /\ Observe(NoEmit)
  \/ EmitCatch /\ Observe(NoEmit)
  \/ Propagate /\ Observe(NoEmit)
  \/ OnInsert /\ Observe(NoEmit)
  \/ OffEnd /\ Observe(NoEmit)
  \/ OnceCall /\ Observe(NoEmit)
  \/ OnceReturn /\ Observe(NoEmit)
  \/ FnReturn /\ Observe(NoEmit)
  \/ FnThrow /\ Observe(NoEmit)

SpecOnce == Init /\ [][NextOnce]_vars

(***************************************************************************)
(* Unchecked arguments: the program and the listeners register with keys   *)
(* and listeners of any kind, and emit.                                    *)
(***************************************************************************)
AnyNames == Names \cup {InvalidName}
AnyFunctions == Functions \cup {NotInvocable}

\* on and prependListener with any arguments
OnAny ==
  /\ CanCall
  /\ Entries(Cur) < MaxEntries
  /\ \E eventName \in AnyNames, fn \in AnyFunctions, prepend \in BOOLEAN :
       Apply(on(Caller, eventName, Fn(fn), prepend))

\* once and prependOnceListener with any arguments
OnceAny ==
  /\ CanCall
  /\ Entries(Cur) < MaxEntries
  /\ nextId <= MaxOnce
  /\ \E eventName \in AnyNames, fn \in AnyFunctions, prepend \in BOOLEAN :
       Apply(once(Caller, eventName, fn, prepend))

\* emit with any key
EmitAny == \E eventName \in AnyNames, v \in Values : EmitCall(eventName, v)

NextInvalid ==
  \/ OnAny /\ Quiet
  \/ OnceAny /\ Quiet
  \/ EmitAny /\ Quiet
  \/ Receive /\ Quiet
  \/ EmitInvoke /\ Quiet
  \/ EmitReturn /\ Quiet
  \/ EmitCatch /\ Quiet
  \/ Propagate /\ Quiet
  \/ OnInsert /\ Quiet
  \/ OffEnd /\ Quiet
  \/ OnceCall /\ Quiet
  \/ OnceReturn /\ Quiet
  \/ FnReturn /\ Quiet
  \/ FnThrow /\ Quiet

SpecInvalid == Init /\ [][NextInvalid]_vars

(***************************************************************************)
(* Symbol keys: the program registers, emits and removes with a string key *)
(* or a symbol key.                                                        *)
(***************************************************************************)
KeyNames ==
  IF stack = <<>> THEN {"x", SymbolName, RemoveListenerName} ELSE ListenerNames

OnKey ==
  /\ CanCall
  /\ Entries(Cur) < MaxEntries
  /\ \E eventName \in KeyNames, f \in Functions, prepend \in BOOLEAN :
       Apply(on(Caller, eventName, Fn(f), prepend))

EmitKey == \E eventName \in KeyNames, v \in Values : EmitCall(eventName, v)

OffKey ==
  /\ CanCall
  /\ \E eventName \in KeyNames :
       \E listener \in OffArgs(eventName) :
         Apply(off(Caller, eventName, listener))

RemoveAllKey ==
  /\ CanCall
  /\ \E eventName \in KeyNames \cup {NoName} :
       Apply(removeAllListeners(Caller, eventName))

NextSymbol ==
  \/ OnKey /\ Quiet
  \/ EmitKey /\ Quiet
  \/ OffKey /\ Quiet
  \/ RemoveAllKey /\ Quiet
  \/ Receive /\ Quiet
  \/ EmitInvoke /\ Quiet
  \/ EmitReturn /\ Quiet
  \/ EmitCatch /\ Quiet
  \/ Propagate /\ Quiet
  \/ OnInsert /\ Quiet
  \/ OffEnd /\ Quiet
  \/ FnReturn /\ Quiet
  \/ FnThrow /\ Quiet
  \/ RemoveAllOff /\ Quiet
  \/ RemoveAllNext /\ Quiet
  \/ RemoveAllReturn /\ Quiet

SpecSymbol == Init /\ [][NextSymbol]_vars

(***************************************************************************)
(* Handlers that do several things: the program registers and removes      *)
(* listeners of "x" and of 'removeListener', and a running listener calls  *)
(* off and on for "x", one after the other.                                *)
(***************************************************************************)
CanReenter ==
  \/ stack = <<>> /\ result = None
  \/ /\ Running
     /\ Top(Cur).kind = "fn"
     /\ Top(Cur).fn \in Active
     /\ Top(Cur).calls < MaxHandlerCalls
     /\ Nesting(Cur) <= MaxNesting

ReentrantNames ==
  IF stack = <<>> THEN {"x", RemoveListenerName} ELSE ListenerNames

OnReentrant ==
  /\ CanReenter
  /\ Entries(Cur) < MaxEntries
  /\ \E eventName \in ReentrantNames, f \in Functions :
       Apply(on(Caller, eventName, Fn(f), FALSE))

OffReentrant ==
  /\ CanReenter
  /\ \E eventName \in ReentrantNames, f \in Functions :
       Apply(off(Caller, eventName, Fn(f)))

NextReentrant ==
  \/ OnReentrant /\ Quiet
  \/ OffReentrant /\ Quiet
  \/ Receive /\ Quiet
  \/ EmitInvoke /\ Quiet
  \/ EmitReturn /\ Quiet
  \/ EmitCatch /\ Quiet
  \/ Propagate /\ Quiet
  \/ OnInsert /\ Quiet
  \/ OffEnd /\ Quiet
  \/ FnReturn /\ Quiet
  \/ FnThrow /\ Quiet

SpecReentrant == Init /\ [][NextReentrant]_vars

(***************************************************************************)
(* Promises.  A listener can return a promise.  The loop of #emitEvent     *)
(* attaches #capturePromiseError to the promises it gets when              *)
(* #captureRejections is set; a once wrapper and #emitPromiseError drop    *)
(* the value their callee returns.  A promise settles in a job of its own, *)
(* when the stack is empty.  A rejection that no handler takes, or whose   *)
(* handler throws, is an unhandled rejection: it is the result the job     *)
(* leaves, with status "throw".                                            *)
(***************************************************************************)
\* the listener that is running was invoked by the dispatch of 'error' that
\* #emitPromiseError made
FromRouting ==
  /\ Len(stack) >= 3
  /\ stack[Len(stack) - 1].kind = "emit"
  /\ stack[Len(stack) - 2].kind = "emitPromiseError"

\* (mutant) catch() is attached whatever #captureRejections is
PromiseAlwaysCaught(to) ==
  [to |-> to, caught |-> to = "emit", routed |-> FromRouting]

\* the promise a listener returned to the activation of kind `to`:
\* if (this.#captureRejections && promise instanceof Promise)
\*   promise.catch(this.#capturePromiseError)
\* routed is history: the listener is an 'error' listener that the routing
\* of a rejection invoked
Promise(to) ==
  [to |-> to, caught |-> to = "emit" /\ rejections.captureRejections,
   routed |-> FromRouting]

\* the dispatch of 'error' that #emitError(error) makes for #emitPromiseError
emitErrorOfPromise(s, error) ==
  Call(s, EmitFrame(s, ErrorListenerName, [v |-> error], FALSE, error,
                    [eventName |-> NoName, count |-> 0, invoked |-> 0,
                     list |-> <<>>]))

\* (mutant) the 'error' listeners come first when there are any
emitPromiseErrorToError(s, rejectionListener, error) ==
  LET c == Call(s, [kind |-> "emitPromiseError", error |-> error,
                    rejectionListener |-> rejectionListener,
                    start |-> Stored(s, ErrorListenerName)])
  IN IF rejectionListener # NoRejectionListener /\ ~get(s, ErrorListenerName)
     THEN invoke(c, Fn(rejectionListener), [v |-> error])
     ELSE emitErrorOfPromise(c, error)

\* #capturePromiseError(error), which is #emitPromiseError(error), up to the
\* call of the rejection listener or of the first 'error' listener;
\* rejectionListener is this[this.#captureRejectionSymbol], and start is
\* history, the 'error' listeners registered when the routing starts
emitPromiseError(s, rejectionListener, error) ==
  LET c == Call(s, [kind |-> "emitPromiseError", error |-> error,
                    rejectionListener |-> rejectionListener,
                    start |-> Stored(s, ErrorListenerName)])
  IN IF rejectionListener # NoRejectionListener
     THEN invoke(c, Fn(rejectionListener), [v |-> error])
     ELSE emitErrorOfPromise(c, error)

\* how a job of #capturePromiseError ends; invoked is history, the 'error'
\* listeners the routing invoked
PromiseErrorResult(frame, status, v) ==
  [status |-> status, op |-> "emitPromiseError", v |-> v,
   error |-> frame.error, rejectionListener |-> frame.rejectionListener,
   start |-> frame.start,
   invoked |-> IF result.op = "emit" THEN result.invoked ELSE <<>>]

\* the rejection of a promise that has no handler
unhandledRejection(s, promise, error) ==
  [s EXCEPT !.result = [status |-> "throw", op |-> "promise", v |-> error,
                        to |-> promise.to]]

\* s without its i-th element
Without(s, i) == SubSeq(s, 1, i - 1) \o SubSeq(s, i + 1, Len(s))

\* emitter[EventEmitter.captureRejectionSymbol] = g, or delete of the property
SetRejectionListener ==
  /\ stack = <<>>
  /\ result = None
  /\ \E fn \in Active \cup {NoRejectionListener} :
       /\ fn # rejections.rejectionListener
       /\ rejections' = [rejections EXCEPT !.rejectionListener = fn]
  /\ UNCHANGED <<listeners, stack, result, nextId, history>>

\* a callback of the caller returns a promise
FnReturnPromise ==
  /\ Running
  /\ Top(Cur).kind = "fn"
  /\ Len(rejections.promises) < MaxPromises
  /\ Apply(Return(Pop(Cur), "fn", "promise"))
  /\ rejections' = [rejections EXCEPT
                      !.promises = Append(@, Promise(Top(Pop(Cur)).kind))]
  /\ UNCHANGED history

\* the promise is fulfilled
Fulfilled == "fulfilled"

\* a promise settles.  Fulfilled, no handler of the emitter runs; rejected,
\* the job of its handler starts, if it has one
Settle ==
  /\ stack = <<>>
  /\ result = None
  /\ \E i \in 1..Len(rejections.promises), error \in Errors \cup {Fulfilled} :
       LET promise == rejections.promises[i]
       IN /\ rejections' = [rejections EXCEPT !.promises = Without(@, i)]
          /\ IF error = Fulfilled THEN Apply(Cur)
             ELSE IF promise.caught
             THEN Apply(emitPromiseError(Cur, rejections.rejectionListener, error))
             ELSE Apply(unhandledRejection(Cur, promise, error))
  /\ UNCHANGED history

\* #emitPromiseError after rejectionListener(error) or #emitError(error)
\* returned: the job is over
PromiseErrorReturn ==
  /\ Running
  /\ Top(Cur).kind = "emitPromiseError"
  /\ Apply([Pop(Cur) EXCEPT !.result =
              PromiseErrorResult(Top(Cur), "return", "undefined")])

\* (mutant) what the rejection listener throws is given to #emitError
PromiseErrorThrowRouted ==
  /\ Throwing
  /\ Top(Cur).kind = "emitPromiseError"
  /\ IF Top(Cur).rejectionListener # NoRejectionListener /\ result.op = "fn"
     THEN Apply(emitErrorOfPromise([Cur EXCEPT !.result = None], result.v))
     ELSE Apply([Pop(Cur) EXCEPT !.result =
                   PromiseErrorResult(Top(Cur), "throw", result.v)])

\* what rejectionListener(error) or #emitError(error) throws leaves
\* #emitPromiseError and #capturePromiseError: the promise that catch()
\* returned is rejected, and it has no handler
PromiseErrorThrow ==
  /\ Throwing
  /\ Top(Cur).kind = "emitPromiseError"
  /\ Apply([Pop(Cur) EXCEPT !.result =
              PromiseErrorResult(Top(Cur), "throw", result.v)])

\* an exception leaves an activation of the emitter's methods or a wrapper
PropagateInner ==
  /\ Propagate
  /\ Top(Cur).kind # "emitPromiseError"

NextReject ==
  \/ Emit /\ Quiet
  \/ On /\ Quiet
  \/ Once /\ Quiet
  \/ SetRejectionListener
  \/ Receive /\ Quiet
  \/ EmitInvoke /\ Quiet
  \/ EmitReturn /\ Quiet
  \/ EmitCatch /\ Quiet
  \/ PropagateInner /\ Quiet
  \/ OnInsert /\ Quiet
  \/ OffEnd /\ Quiet
  \/ OnceCall /\ Quiet
  \/ OnceReturn /\ Quiet
  \/ FnReturn /\ Quiet
  \/ FnThrow /\ Quiet
  \/ FnReturnPromise
  \/ Settle
  \/ PromiseErrorReturn /\ Quiet
  \/ PromiseErrorThrow /\ Quiet

SpecReject == InitReject /\ [][NextReject]_vars

(***************************************************************************)
(* Properties.                                                             *)
(***************************************************************************)
Range(seq) == {seq[i] : i \in 1..Len(seq)}

\* C1 (snapshot rule): at every point of a dispatch the entries it has
\* invoked are the first entries, in order, of the array the key held when
\* the dispatch started, whatever was added to or removed from the key since;
\* and a dispatch that runs to its end has invoked exactly that array.
SnapshotRule ==
  /\ \A i \in 1..Len(stack) :
       stack[i].kind = "emit" =>
         /\ stack[i].index <= Len(stack[i].start)
         /\ stack[i].invoked = SubSeq(stack[i].start, 1, stack[i].index)
  /\ (result.op = "emit" /\ result.status = "return") =>
       result.invoked = result.start

\* C1, witness: a listener that was removed from the key during the dispatch,
\* before its turn, is invoked by the dispatch all the same
SnapshotRuleWitness ==
  /\ Len(stack) >= 2
  /\ stack[Len(stack)].kind = "fn"
  /\ stack[Len(stack)].calls = 0
  /\ stack[Len(stack) - 1].kind = "emit"
  /\ stack[Len(stack) - 1].eventName = "x"
  /\ stack[Len(stack) - 1].index >= 2
  /\ Fn(stack[Len(stack)].fn) \notin Range(Stored(Cur, "x"))

\* C3, as claimed: emit returns false when the key had no listener at the
\* snapshot and returns true in every other case
EmitAlwaysReturns ==
  result.op = "emit" =>
    /\ result.status = "return"
    /\ result.v = (IF result.called.count = 0 THEN "false" ELSE "true")

\* C3, amended: an emit that returns returns false if and only if the key had
\* no listener at the snapshot, and true otherwise; an emit throws instead of
\* returning only when the key had listeners, one of them threw, and
\* #emitError found no 'error' listener (it throws the value it was given) or
\* an 'error' listener threw
EmitReturnValue ==
  result.op = "emit" =>
    IF result.status = "return"
    THEN result.v = (IF result.called.count = 0 THEN "false" ELSE "true")
    ELSE /\ result.status = "throw"
         /\ result.called.count > 0
         /\ result.error # "none"
         /\ result.start = <<>> => result.v = result.error
         /\ result.start # <<>> => result.invoked # <<>>

\* C3, witness: an emit on a key with listeners ends by throwing
EmitReturnValueWitness ==
  /\ result.op = "emit"
  /\ result.status = "throw"
  /\ result.called.count > 0
  /\ result.called.eventName = "x"

\* C8: on and prependListener emit 'newListener' with (key, cb) before cb is
\* inserted: when the handlers start the key holds what it held when the call
\* was made, a handler registered on 'newListener' is not in the dispatch of
\* its own registration, and cb then goes to the tail (on) or to the front
\* (prependListener) of what the key holds
NewListenerBeforeInsert ==
  /\ \A i \in 1..(Len(stack) - 1) :
       stack[i].kind = "on" =>
         /\ stack[i + 1].kind = "emit"
         /\ stack[i + 1].called.eventName = NewListenerName
         /\ stack[i + 1].catching =>
              /\ stack[i + 1].eventName = NewListenerName
              /\ stack[i + 1].arg = [eventName |-> stack[i].eventName,
                                     listener |-> stack[i].listener]
              /\ stack[i].eventName = NewListenerName =>
                   stack[i + 1].start = stack[i].before
              /\ (i + 1 = Len(stack) /\ stack[i + 1].index = 0) =>
                   Stored(Cur, stack[i].eventName) = stack[i].before
  /\ (result.op = "on" /\ result.status = "return") =>
       Stored(Cur, result.eventName) =
         (IF result.prepend THEN <<result.listener>> \o result.prior
          ELSE Append(result.prior, result.listener))

\* C8, witness: a 'newListener' handler runs for the registration of another
\* 'newListener' handler, which the key does not hold yet
NewListenerBeforeInsertWitness ==
  /\ Len(stack) = 3
  /\ stack[1].kind = "on"
  /\ stack[1].eventName = NewListenerName
  /\ stack[1].before # <<>>
  /\ stack[3].kind = "fn"
  /\ Stored(Cur, NewListenerName) = stack[1].before

\* C9, as claimed: off emits 'removeListener' once, for the entry it removed
\* and after removing it, and an off that matches no entry leaves the registry
\* as it found it
OffWithoutMatchIsNoOp ==
  /\ \A i \in 1..Len(stack) :
       stack[i].kind = "off" =>
         /\ stack[i].removed
         /\ i < Len(stack) =>
              /\ stack[i + 1].kind = "emit"
              /\ stack[i + 1].called.eventName = RemoveListenerName
              /\ stack[i + 1].catching =>
                   /\ stack[i + 1].eventName = RemoveListenerName
                   /\ stack[i + 1].arg = [eventName |-> stack[i].eventName,
                                          listener |-> stack[i].listener]
                   /\ stack[i].listener \notin Range(stack[i + 1].start)
                        \/ stack[i].eventName # RemoveListenerName
                        \/ stack[i].listener \in Range(Stored(Cur, RemoveListenerName))
  /\ (result.op = "off" /\ result.status = "return" /\ ~result.removed) =>
       listeners = result.prior

\* C10, as claimed: while removeAllListeners() removes the listeners of another
\* key, every handler that was registered on 'removeListener' when the call
\* was made (and is no once wrapper, which leaves when it fires) is notified
RemoveListenerDrainedLast ==
  \A i \in 1..(Len(stack) - 2) :
    ( /\ stack[i].kind = "removeAllListeners"
      /\ stack[i].all
      /\ stack[i + 1].kind = "off"
      /\ stack[i + 1].eventName # RemoveListenerName
      /\ stack[i + 2].kind = "emit"
      /\ stack[i + 2].catching )
    => \A h \in Range(stack[i].handlers) : ~h.once => h \in Range(stack[i + 2].start)

Reverse(seq) == [i \in 1..Len(seq) |-> seq[Len(seq) + 1 - i]]

\* the order C2 claims for a key: the listeners prependListener registered,
\* last registered first, then the listeners on registered, first registered
\* first
ClaimedOrder(eventName) ==
  Reverse(registered[eventName].prepended) \o registered[eventName].appended

\* C2: with no removal, listeners(key) returns, and a dispatch of key that
\* starts walks, the callbacks registered with on in registration order,
\* preceded by those registered with prependListener in reverse registration
\* order
RegistrationOrder ==
  /\ \A eventName \in EventNames :
       listenersOf(Cur, eventName) = ClaimedOrder(eventName)
  /\ ( /\ stack # <<>>
       /\ Top(Cur).kind = "emit"
       /\ Top(Cur).index = 0 )
     => CurrentListeners(Cur, Top(Cur)) = ClaimedOrder(Top(Cur).eventName)

\* C2, witness: a dispatch starts on a key for which two different listeners
\* were prepended, or two different listeners appended
RegistrationOrderWitness ==
  /\ stack # <<>>
  /\ Top(Cur).kind = "emit"
  /\ Top(Cur).index = 0
  /\ Top(Cur).eventName = "x"
  /\ Len(registered["x"].prepended) = 2
  /\ registered["x"].prepended[1] # registered["x"].prepended[2]

\* C6: an off(key, f) that returns without having removed an entry found no
\* once entry of f under key: off called with the original callback removes
\* the once entry registered for it
OffOriginalRemovesOnce ==
  ( /\ result.op = "off"
    /\ result.status = "return"
    /\ ~result.listener.once
    /\ ~result.removed )
  => LET array == Stored([listeners |-> result.prior], result.eventName)
     IN \A i \in 1..Len(array) :
          ~(array[i].once /\ array[i].fn = result.listener.fn)

\* C7: listeners(key) returns the callbacks the caller passed, never a once
\* wrapper
ListenersReturnsOriginals ==
  \A eventName \in EventNames :
    \A i \in 1..Len(listenersOf(Cur, eventName)) :
      ~listenersOf(Cur, eventName)[i].once

\* C4: the callback of a once wrapper is invoked at most once, nested emits
\* included, and from its first invocation on the wrapper is no entry of the
\* registry
OnceAtMostOnce ==
  \A id \in 1..MaxOnce :
    /\ Len(wrappers[id].fired) <= 1
    /\ wrappers[id].fired # <<>> => ~StoredWrapper(Cur, id)

\* C5: after once(key, f), with no listener throwing, no other dispatch of key
\* and no removal of the entry before it fires, the first emit(key, a) of the
\* program invokes f with a, and f is invoked that one time only, whatever
\* follows
OnceFiresOnFirstEmit ==
  \A id \in 1..MaxOnce :
    LET w == wrappers[id]
    IN (w.armed /\ ~w.disturbed) =>
         /\ w.emits = <<>> => w.fired = <<>>
         /\ w.emits # <<>> => w.fired \in {<<>>, <<w.emits[1]>>}
         /\ (Len(w.emits) = 2 \/ (Len(w.emits) = 1 /\ stack = <<>>))
              => w.fired = <<w.emits[1]>>

\* C5, witness: emit(key, a) then emit(key, b), with a # b, were made after a
\* once(key, f) that nothing disturbed, and the second has returned
OnceFiresOnFirstEmitWitness ==
  \E id \in 1..MaxOnce :
    /\ wrappers[id].armed
    /\ ~wrappers[id].disturbed
    /\ Len(wrappers[id].emits) = 2
    /\ wrappers[id].emits[1] # wrappers[id].emits[2]
    /\ stack = <<>>
    /\ result.op = "emit"

IsPrefix(s, t) == Len(s) <= Len(t) /\ s = SubSeq(t, 1, Len(s))

\* an emit of a key other than 'error' has ended after a listener threw and
\* #emitError found 'error' listeners
RoutedToErrorListeners ==
  /\ result.op = "emit"
  /\ result.error # "none"
  /\ result.called.eventName # ErrorListenerName
  /\ result.start # <<>>

\* C11, as claimed: when a listener of a key other than 'error' throws and
\* 'error' has listeners, each of them is invoked once with the thrown value
\* and emit returns
ErrorListenersEachOnce ==
  RoutedToErrorListeners =>
    /\ result.status = "return"
    /\ result.invoked = result.start

\* C11, amended: the 'error' listeners are invoked in order, once each, with
\* the thrown value as sole argument, and emit returns true; unless one of
\* them throws, which ends the run and is what emit throws
ErrorListenersUntilThrow ==
  /\ RoutedToErrorListeners =>
       IF result.status = "return"
       THEN result.invoked = result.start /\ result.v = "true"
       ELSE /\ result.status = "throw"
            /\ result.invoked # <<>>
            /\ IsPrefix(result.invoked, result.start)
  /\ \A i \in 1..Len(stack) :
       (stack[i].kind = "emit" /\ ~stack[i].catching) =>
         /\ stack[i].eventName = ErrorListenerName
         /\ stack[i].arg = [v |-> stack[i].error]
         /\ i < Len(stack) /\ stack[i + 1].kind \in {"fn", "once"}
              => stack[i + 1].arg = [v |-> stack[i].error]

\* C11, witness: a listener of "x" threw, the 'error' listener was invoked
\* and returned, and emit("x") has returned to the program
ErrorListenersUntilThrowWitness ==
  /\ RoutedToErrorListeners
  /\ stack = <<>>
  /\ result.called.eventName = "x"
  /\ result.status = "return"
  /\ result.invoked = result.start

\* C12: when a listener throws during emit and 'error' has no listener, emit
\* throws the value the listener threw
UnhandledThrowReachesCaller ==
  ( /\ result.op = "emit"
    /\ result.error # "none"
    /\ result.start = <<>> )
  => /\ result.status = "throw"
     /\ result.v = result.error
     /\ result.v \in Errors

\* C12, witness: emit("x") throws the value its second listener threw
UnhandledThrowReachesCallerWitness ==
  /\ stack = <<>>
  /\ result.op = "emit"
  /\ result.status = "throw"
  /\ result.start = <<>>
  /\ result.called.eventName = "x"
  /\ result.called.invoked = 2

\* C19: a throw of a listener is never both the end of the run of the
\* snapshot and routed to the 'error' listeners: when #emitError invokes
\* 'error' listeners, every listener of the snapshot of emit has been invoked
OneThrowPolicy ==
  \A i \in 1..Len(stack) :
    ( /\ stack[i].kind = "emit"
      /\ ~stack[i].catching
      /\ stack[i].invoked # <<>> )
    => stack[i].called.invoked = stack[i].called.count

\* C15: in every state the program or a running listener can observe, each
\* key eventNames() reports has a listener
KeysHaveListeners ==
  (stack = <<>> \/ Top(Cur).kind = "fn") =>
    \A i \in 1..Len(eventNames(Cur)) :
      listenersOf(Cur, eventNames(Cur)[i]) # <<>>

\* the number of occurrences of listener in array
Occurrences(array, listener) ==
  Cardinality({i \in 1..Len(array) : array[i] = listener})

\* the activation i is an off that has just removed its listener: no
\* 'removeListener' listener has run yet
JustRemoved(i) ==
  /\ stack[i].kind = "off"
  /\ stack[i].removed
  /\ \/ /\ i = Len(stack)
        /\ result.op = "emit"
        /\ result.status = "return"
        /\ result.eventName = RemoveListenerName
        /\ result.error = "none"
        /\ result.start = <<>>
     \/ /\ i + 1 = Len(stack)
        /\ Running
        /\ stack[i + 1].kind = "emit"
        /\ stack[i + 1].catching
        /\ stack[i + 1].index = 0

\* C16: a callback registered again is one more entry, emit invokes a
\* callback as many times as the snapshot holds it, and off removes the first
\* occurrence only and leaves the other entries in their order
DuplicatesIndependent ==
  /\ (result.op = "on" /\ result.status = "return") =>
       Stored(Cur, result.eventName) =
         IF result.prepend THEN <<result.listener>> \o result.prior
         ELSE result.prior \o <<result.listener>>
  /\ (result.op = "emit" /\ result.status = "return" /\ result.error = "none") =>
       \A i \in 1..Len(result.start) :
         Occurrences(result.invoked, result.start[i])
           = Occurrences(result.start, result.start[i])
  /\ \A i \in 1..Len(stack) : JustRemoved(i) =>
       LET before == stack[i].before
           after == Stored(Cur, stack[i].eventName)
       IN \E k \in 1..Len(before) :
            /\ before[k] = stack[i].listener
            /\ \A j \in 1..(k - 1) : before[j] # stack[i].listener
            /\ after = SubSeq(before, 1, k - 1) \o SubSeq(before, k + 1, Len(before))

\* C16, witness: off has just removed the first of two entries of one
\* callback
DuplicatesIndependentWitness ==
  \E i \in 1..Len(stack) :
    /\ JustRemoved(i)
    /\ ~stack[i].listener.once
    /\ Occurrences(stack[i].before, stack[i].listener) = 2
    /\ Stored(Cur, stack[i].eventName) = <<stack[i].listener>>

\* C17: once the listeners of a key are more than a finite, non-zero
\* threshold, exactly one warning has been written for the key
WarnsOncePastThreshold ==
  \A eventName \in EventNames :
    listenerCount(Cur, eventName) > MaxListenersOption
      => warnings(Cur, eventName) = 1

\* the arguments of a registration are a string or symbol key and a function
ValidRegistration(eventName, listener) ==
  eventName # InvalidName /\ listener.fn \in Functions

\* C18: a registration with a key that is no string or symbol, or with a
\* listener that is no function, fails at once: on does not start, nothing
\* of it reaches the registry, and no TypeError of it is routed to 'error'
ValidationRejects ==
  /\ \A i \in 1..Len(stack) :
       /\ stack[i].kind = "on"
            => ValidRegistration(stack[i].eventName, stack[i].listener)
       /\ (stack[i].kind = "emit" /\ ~stack[i].catching)
            => stack[i].error # TypeErrorValue
  /\ \A p \in 1..Len(listeners) :
       \A i \in 1..Len(listeners[p].array) :
         ValidRegistration(listeners[p].name, listeners[p].array[i])

\* the job that routes the rejection of a promise has ended
Routed == result.op = "emitPromiseError"

\* C13: the rejection of a promise that a listener returned to the loop of
\* #emitEvent, with captureRejections set, goes to one destination: the
\* rejection listener when the property is assigned, and then no 'error'
\* listener is invoked; otherwise the 'error' listeners, in order, with the
\* reason as their argument; otherwise, with no 'error' listener, the job
\* ends with the reason as an unhandled rejection
RejectionRouting ==
  /\ \A i \in 1..Len(stack) :
       (stack[i].kind = "emitPromiseError" /\ i < Len(stack)) =>
         IF stack[i].rejectionListener # NoRejectionListener
         THEN /\ stack[i+1].kind = "fn"
              /\ stack[i+1].fn = stack[i].rejectionListener
              /\ stack[i+1].arg = [v |-> stack[i].error]
         ELSE /\ stack[i+1].kind = "emit"
              /\ stack[i+1].eventName = ErrorListenerName
              /\ stack[i+1].arg = [v |-> stack[i].error]
              /\ stack[i+1].start = stack[i].start
              /\ i + 1 < Len(stack) /\ stack[i+2].kind \in {"fn", "once"}
                   => stack[i+2].arg = [v |-> stack[i].error]
  /\ Routed =>
       IF result.rejectionListener # NoRejectionListener
       THEN result.invoked = <<>>
       ELSE IF result.start # <<>>
       THEN /\ result.invoked # <<>>
            /\ IsPrefix(result.invoked, result.start)
            /\ result.status = "return" => result.invoked = result.start
       ELSE /\ result.invoked = <<>>
            /\ result.status = "throw"
            /\ result.v = result.error
  /\ \A i \in 1..Len(rejections.promises) :
       rejections.promises[i].to = "emit"
         => rejections.promises[i].caught = rejections.captureRejections

\* a rejection went to the rejection listener while 'error' had a listener
RejectionRoutingWitness ==
  /\ Routed
  /\ result.rejectionListener # NoRejectionListener
  /\ result.start # <<>>
  /\ result.status = "return"

\* C14: with captureRejections set, the promise that the callback of a once
\* wrapper returns is caught like the promise a listener returns to the loop
OncePromiseCaught ==
  /\ \A i \in 1..Len(rejections.promises) :
       rejections.promises[i].to \in {"emit", "once"}
         => rejections.promises[i].caught = rejections.captureRejections
  /\ (result.op = "promise" /\ result.to = "once")
       => ~rejections.captureRejections

\* the rejection listener has thrown while it handled a rejection
RejectionListenerThrew ==
  /\ Routed
  /\ result.rejectionListener # NoRejectionListener
  /\ result.status = "throw"

\* C20: what the rejection listener throws, or the rejection of a promise it
\* returns, is routed nowhere: no 'error' listener and no rejection listener
\* is invoked for it, and the job ends with it as an unhandled rejection
RejectionListenerFailureTerminal ==
  /\ \A i \in 1..Len(stack) :
       (/\ stack[i].kind = "emitPromiseError"
        /\ stack[i].rejectionListener # NoRejectionListener
        /\ i < Len(stack))
         => stack[i+1].kind = "fn"
  /\ RejectionListenerThrew => result.invoked = <<>> /\ result.v \in Errors
  /\ \A i \in 1..Len(rejections.promises) :
       rejections.promises[i].to = "emitPromiseError"
         => ~rejections.promises[i].caught
  /\ (result.op = "promise" /\ result.to = "emitPromiseError")
       => result.status = "throw" /\ stack = <<>>

\* the rejection listener threw while 'error' had a listener
RejectionListenerFailureTerminalWitness ==
  RejectionListenerThrew /\ result.start # <<>> /\ stack = <<>>

\* C21: on an emitter constructed without captureRejections no promise of a
\* listener is caught, so that its rejection starts no routing: neither the
\* rejection listener nor an 'error' listener is invoked for it, and it ends
\* as an unhandled rejection
NoCaptureNoRouting ==
  ~rejections.captureRejections =>
    /\ \A i \in 1..Len(rejections.promises) : ~rejections.promises[i].caught
    /\ \A i \in 1..Len(stack) : stack[i].kind # "emitPromiseError"
    /\ ~Routed
    /\ result.op = "promise" => result.status = "throw" /\ stack = <<>>

\* a promise returned to the loop of #emitEvent was rejected while the
\* rejection listener was assigned and 'error' had a listener
NoCaptureNoRoutingWitness ==
  /\ ~rejections.captureRejections
  /\ result.op = "promise"
  /\ result.to = "emit"
  /\ rejections.rejectionListener # NoRejectionListener
  /\ Stored(Cur, ErrorListenerName) # <<>>

\* C22: when the loops of removeAllListeners(key) are over and the call is
\* about to return, key is absent from the registry
RemoveAllLeavesKeyAbsent ==
  \A i \in 1..Len(stack) :
    ( /\ stack[i].kind = "removeAllListeners"
      /\ ~stack[i].all
      /\ i = Len(stack)
      /\ Running
      /\ stack[i].lindex >= Len(stack[i].list)
      /\ stack[i].eindex >= Len(stack[i].eventNames) )
    => ~get(Cur, stack[i].eventNames[1])

\* C23: every key that has a listener, string or symbol, is listed by
\* eventNames(), and is one of the keys removeAllListeners() walks
AllKeysListed ==
  /\ \A p \in 1..Len(listeners) :
       listenerCount(Cur, listeners[p].name) > 0
         => listeners[p].name \in Range(eventNames(Cur))
  /\ \A i \in 1..Len(stack) :
       ( /\ stack[i].kind = "removeAllListeners"
         /\ stack[i].all
         /\ i = Len(stack)
         /\ stack[i].eindex = 0 )
       => \A p \in 1..Len(listeners) :
            listenerCount(Cur, listeners[p].name) > 0
              => listeners[p].name \in Range(stack[i].eventNames)

\* C24: the end of off, after its emit of 'removeListener', takes no listener
\* out of the registry: what on has inserted meanwhile stays
OffEndKeepsListeners ==
  (Running /\ Top(Cur).kind = "off") =>
    \A p \in 1..Len(listeners) :
      Stored(offEnd(Pop(Cur), Top(Cur)), listeners[p].name) = listeners[p].array

\* C25: the promise an 'error' listener returns while the rejection of a
\* promise is routed to it is not caught, so that its rejection is not
\* routed to the 'error' listeners in turn
RoutingNotFedBack ==
  \A i \in 1..Len(rejections.promises) :
    rejections.promises[i].routed => ~rejections.promises[i].caught

\* C26: one call of emit invokes each entry of the snapshot it took at most
\* once, also emit('error', ...) when a listener throws: the dispatch that
\* #emitError then makes for the same call does not invoke an entry that the
\* loop of the call has invoked already
EachEntryAtMostOnce ==
  \A i \in 1..Len(stack) :
    ( /\ stack[i].kind = "emit"
      /\ ~stack[i].catching
      /\ stack[i].called.eventName = ErrorListenerName )
    => \A j \in 1..Len(stack[i].invoked) :
         ~( /\ j <= stack[i].called.invoked
            /\ j <= Len(stack[i].list)
            /\ stack[i].list[j] = stack[i].called.list[j] )

\* on has thrown to its caller
OnThrew == result.op = "on" /\ result.status = "throw"

\* C27, as claimed: when on, prependListener, once or prependOnceListener
\* throws what a 'newListener' handler threw, the array of the key is what
\* it was when the call was made
NewListenerThrowLeavesSequence ==
  OnThrew =>
    /\ result.v \in Errors
    /\ Stored(Cur, result.eventName) = result.before

\* C27, amended: when the emit of 'newListener' that on, prependListener,
\* once or prependOnceListener makes throws (a handler threw and 'error' has
\* no listener to take it), the call throws the same value to its caller and
\* inserts nothing: the step that ends the call leaves the registry as the
\* handlers left it, and the array of a key that no running listener
\* registers for holds nothing that it did not hold when the call was made
NewListenerThrowKeepsSequence ==
  /\ [](OnThrew =>
          /\ result.v \in Errors
          /\ result.eventName \notin ListenerNames
               => /\ Len(Stored(Cur, result.eventName)) <= Len(result.before)
                  /\ Range(Stored(Cur, result.eventName))
                       \subseteq Range(result.before))
  /\ [][(Throwing /\ Top(Cur).kind = "on") =>
          /\ listeners' = listeners
          /\ stack' = SubSeq(stack, 1, Len(stack) - 1)
          /\ result'.status = "throw"
          /\ result'.op = "on"
          /\ result'.v = result.v]_vars

\* the program's registration of a once wrapper threw what a 'newListener'
\* handler threw
NewListenerThrowKeepsSequenceWitness ==
  /\ OnThrew
  /\ stack = <<>>
  /\ result.eventName \notin ListenerNames
  /\ result.listener.once
  /\ get(Cur, NewListenerName)

====
